---- MODULE Spec2Model ----
(***************************************************************************)
(* Aadhaar Analytics Suite: the data ingestion and analysis core of        *)
(* src/app.py and src/utils.py as a state machine.                         *)
(*                                                                         *)
(* A header is a sequence of one-character strings, a DataFrame is a       *)
(* record of its column keys and its rows, a cell is a tagged record.      *)
(***************************************************************************)
EXTENDS Integers, Sequences, FiniteSets, TLC

VARIABLES
    uploaded_files, \* the batch handed to process_data / load_data
    fn,             \* which of the two ingestion functions runs: its name, or "idle"
    file_i,         \* how many files of the batch the for loop has finished
    data_map,       \* process_data: category -> frame
    data_frames,    \* load_data: the frames collected so far
    loaded,         \* load_data's return value: <<>> for None, <<df>> for a frame
    diagnostics,    \* what st.warning / st.error have shown, in order
    ipc,            \* "loop", "returned"
    filtered_dfs,   \* category -> frame, after the region filter
    active_view,    \* st.session_state['active_view']
    view,           \* what the active view has computed and shown
    vpc,            \* "start", "rendered"
    det_df,         \* the table a caller hands to detect_anomalies: <<>> for None
    det,            \* the call of detect_anomalies: arguments and return value
    raw,            \* how the header of df was written in the uploaded file
    df,             \* the DataFrame handed to normalize_columns / identify_dataset
    dtype,          \* what identify_dataset returned for df
    pc              \* position of the column pipeline: "raw", "normalized", "identified"

colvars == <<raw, df, dtype, pc>>
ingvars == <<uploaded_files, fn, file_i, data_map, data_frames, loaded, diagnostics, ipc>>
viewvars == <<filtered_dfs, active_view, view, vpc>>
detvars == <<det_df, det>>
vars == <<uploaded_files, fn, file_i, data_map, data_frames, loaded, diagnostics, ipc,
          filtered_dfs, active_view, view, vpc, det_df, det,
          raw, df, dtype, pc>>

(***************************************************************************)
(* Characters and Python's str methods                                     *)
(***************************************************************************)
Lowers ==
    <<"a","b","c","d","e","f","g","h","i","j","k","l","m",
      "n","o","p","q","r","s","t","u","v","w","x","y","z">>
Uppers ==
    <<"A","B","C","D","E","F","G","H","I","J","K","L","M",
      "N","O","P","Q","R","S","T","U","V","W","X","Y","Z">>

\* the characters str.strip() removes from both ends
Whitespace == {" ", "\t", "\n", "\r"}

\* str.lower(), one character
LowerChar(c) ==
    IF \E i \in 1..Len(Uppers) : Uppers[i] = c
    THEN Lowers[CHOOSE i \in 1..Len(Uppers) : Uppers[i] = c]
    ELSE c

\* str.upper(), one character
UpperChar(c) ==
    IF \E i \in 1..Len(Lowers) : Lowers[i] = c
    THEN Uppers[CHOOSE i \in 1..Len(Lowers) : Lowers[i] = c]
    ELSE c

StrLower(s) == [i \in 1..Len(s) |-> LowerChar(s[i])]
StrUpper(s) == [i \in 1..Len(s) |-> UpperChar(s[i])]

\* str.strip(): drop the leading and the trailing whitespace characters
StrStrip(s) ==
    LET inner == {i \in 1..Len(s) : s[i] \notin Whitespace}
    IN  IF inner = {} THEN <<>>
        ELSE LET lo == CHOOSE i \in inner : \A j \in inner : i <= j
                 hi == CHOOSE i \in inner : \A j \in inner : j <= i
             IN  SubSeq(s, lo, hi)

\* str.replace(old, new) for a one-character old and new: every occurrence
StrReplace(s, old, new) == [i \in 1..Len(s) |-> IF s[i] = old THEN new ELSE s[i]]

\* str.capitalize(): first character upper case, the rest lower case
StrCapitalize(s) ==
    [i \in 1..Len(s) |-> IF i = 1 THEN UpperChar(s[i]) ELSE LowerChar(s[i])]

(***************************************************************************)
(* normalize_columns                                                       *)
(***************************************************************************)
\* a plausible slip: the hyphen is left alone
NormalizeHeaderNoHyphen(h) == StrReplace(StrLower(StrStrip(h)), " ", "_")

\* .str.strip().str.lower().str.replace(' ', '_').str.replace('-', '_')
NormalizeHeader(h) ==
    StrReplace(StrReplace(StrLower(StrStrip(h)), " ", "_"), "-", "_")

\* df.columns = ...; the frame itself is changed and returned
NormalizeColumns(d) ==
    [d EXCEPT !.columns = [i \in 1..Len(d.columns) |-> NormalizeHeader(d.columns[i])]]

(***************************************************************************)
(* identify_dataset                                                        *)
(***************************************************************************)
K_date           == <<"d","a","t","e">>
K_state          == <<"s","t","a","t","e">>
K_district       == <<"d","i","s","t","r","i","c","t">>
K_age_0_5        == <<"a","g","e","_","0","_","5">>
K_age_0_to_5     == <<"a","g","e","_","0","_","t","o","_","5">>
K_enrolment      == <<"e","n","r","o","l","m","e","n","t">>
K_demo_age_5_17  == <<"d","e","m","o","_","a","g","e","_","5","_","1","7">>
K_demographic    == <<"d","e","m","o","g","r","a","p","h","i","c">>
K_demo_update    == <<"d","e","m","o","_","u","p","d","a","t","e">>
K_bio_age_5_17   == <<"b","i","o","_","a","g","e","_","5","_","1","7">>
K_biometric      == <<"b","i","o","m","e","t","r","i","c">>
K_bio_update     == <<"b","i","o","_","u","p","d","a","t","e">>
K_age_5_17       == <<"a","g","e","_","5","_","1","7">>
K_age_18_greater == <<"a","g","e","_","1","8","_","g","r","e","a","t","e","r">>
K_bio_age_17_    == <<"b","i","o","_","a","g","e","_","1","7","_">>

EnrolmentKeys   == {K_age_0_5, K_age_0_to_5, K_enrolment}
DemographicKeys == {K_demo_age_5_17, K_demographic, K_demo_update}
BiometricKeys   == {K_bio_age_5_17, K_biometric, K_bio_update}

Categories == {"enrolment", "demographic", "biometric", "unknown"}

\* cols = set(df.columns)
ColumnSet(d) == {d.columns[i] : i \in 1..Len(d.columns)}

\* a plausible slip: the biometric keys are tested before the enrolment keys
IdentifyDatasetBioFirst(d) ==
    LET cols == ColumnSet(d)
    IN  IF \E c \in BiometricKeys : c \in cols THEN "biometric"
        ELSE IF \E c \in EnrolmentKeys : c \in cols THEN "enrolment"
        ELSE IF \E c \in DemographicKeys : c \in cols THEN "demographic"
        ELSE "unknown"

IdentifyDataset(d) ==
    LET cols == ColumnSet(d)
    IN  IF \E c \in EnrolmentKeys : c \in cols THEN "enrolment"
        ELSE IF \E c \in DemographicKeys : c \in cols THEN "demographic"
        ELSE IF \E c \in BiometricKeys : c \in cols THEN "biometric"
        ELSE "unknown"

(***************************************************************************)
(* Cells and frames                                                        *)
(***************************************************************************)
\* what pd.read_csv leaves in a cell: an integer, a text, or NaN (empty cell);
\* pd.to_datetime turns a text into a date or into NaT
IntCell(n)  == [t |-> "int", v |-> n]
StrCell(n)  == [t |-> "str", v |-> n]
NaNCell     == [t |-> "nan", v |-> 0]
DateCell(n) == [t |-> "date", v |-> n]
NaTCell     == [t |-> "nat", v |-> 0]

\* a row of a frame: its cells, one per column, with the uploaded file (src) and
\* the data line of that file (line) it was read from
Row(src, line, cells) == [src |-> src, line |-> line, cells |-> cells]

Frame(columns, rows) == [columns |-> columns, rows |-> rows]

\* 'key' in df.columns
HasColumn(d, key) == \E i \in 1..Len(d.columns) : d.columns[i] = key

\* how many columns of df are called key
CountColumn(d, key) == Cardinality({i \in 1..Len(d.columns) : d.columns[i] = key})

\* the position of the (first) column called key
ColumnIndex(d, key) ==
    CHOOSE i \in 1..Len(d.columns) :
        d.columns[i] = key /\ \A j \in 1..(i - 1) : d.columns[j] # key

\* df[key], the cells of a column top to bottom
Column(d, key) == [r \in 1..Len(d.rows) |-> d.rows[r].cells[ColumnIndex(d, key)]]

\* sub in s, for strings
Contains(s, sub) ==
    \E i \in 0..(Len(s) - Len(sub)) : SubSeq(s, i + 1, i + Len(sub)) = sub

(***************************************************************************)
(* The column pipeline on one frame: lines 167 and 176 of process_data     *)
(***************************************************************************)
W_age  == <<"a","g","e">>
W_demo == <<"d","e","m","o">>
W_bio  == <<"b","i","o">>
W_update == <<"u","p","d","a","t","e">>

\* the logical names of the headers, as word lists
LogicalNames ==
    { <<K_date>>, <<K_state>>, <<K_enrolment>>, <<K_biometric>>,
      <<W_age, <<"0">>, <<"5">> >>,
      <<W_age, <<"0">>, <<"t","o">>, <<"5">> >>,
      <<W_demo, W_update>>,
      <<W_bio, W_update>>,
      <<W_bio, W_age, <<"5">>, <<"1","7">> >> }

\* what may stand between two words of a header in an uploaded file
Separators == { <<"_">>, <<" ">>, <<"-">>, <<"\t">>, <<" "," ">>, <<" ","-">> }
\* what may stand before and after a header
Pads == { <<>>, <<" ">>, <<" ","\t">> }
Cases == {"lower", "upper", "capital"}

ApplyCase(w, c) ==
    IF c = "upper" THEN StrUpper(w)
    ELSE IF c = "capital" THEN StrCapitalize(w)
    ELSE w

RECURSIVE Join(_, _)
Join(words, seps) ==
    IF Len(words) = 0 THEN <<>>
    ELSE IF Len(words) = 1 THEN words[1]
    ELSE words[1] \o seps[1] \o Join(Tail(words), Tail(seps))

\* the header text of the uploaded file
Render(r) ==
    r.lead
    \o Join([i \in 1..Len(r.words) |-> ApplyCase(r.words[i], r.case)], r.seps)
    \o r.trail

\* the canonical key of a logical name: its words joined by one underscore
Canonical(words) == Join(words, [i \in 1..Len(words) |-> <<"_">>])

\* the keys identify_dataset looks for, and two it ignores, in a fixed order
KeyOrder ==
    << K_date, K_age_0_5, K_age_0_to_5, K_enrolment, K_demo_age_5_17,
       K_demographic, K_demo_update, K_bio_age_5_17, K_biometric, K_bio_update,
       K_state >>

Reverse(s) == [i \in 1..Len(s) |-> s[Len(s) + 1 - i]]

KeySeq(S) == SelectSeq(KeyOrder, LAMBDA k : k \in S)

\* one data row of integer cells, or none
SampleRows(ncols) == { <<>>, << Row(0, 1, [i \in 1..ncols |-> IntCell(1)]) >> }

\* a file whose single header is a written variant of a logical name
InitVariant ==
    \E words \in LogicalNames, c \in Cases, lead \in Pads, trail \in Pads :
      \E seps \in [1..(Len(words) - 1) -> Separators] :
        /\ raw = [kind |-> "variant", words |-> words, case |-> c,
                  lead |-> lead, trail |-> trail, seps |-> seps]
        /\ df = Frame(<<Render(raw)>>, <<>>)

\* a file whose headers are canonical keys already, in either order
InitKeys ==
    \E S \in SUBSET {KeyOrder[i] : i \in 1..Len(KeyOrder)}, rev \in BOOLEAN :
      \E rows \in SampleRows(Cardinality(S)) :
        /\ raw = [kind |-> "keys", keys |-> S]
        /\ df = Frame(IF rev THEN Reverse(KeySeq(S)) ELSE KeySeq(S), rows)

\* no frame is in the column pipeline
ColsIdle ==
    /\ raw = [kind |-> "none"] /\ df = Frame(<<>>, <<>>) /\ dtype = "none" /\ pc = "idle"

\* no ingestion is running
IngestIdle ==
    /\ uploaded_files = <<>> /\ fn = "idle" /\ file_i = 0
    /\ data_map = <<>> /\ data_frames = <<>> /\ loaded = <<>>
    /\ diagnostics = <<>> /\ ipc = "returned"

\* no view has been rendered
NoView ==
    [raised |-> FALSE, c_0_5 |-> IntCell(0), c_5_17 |-> IntCell(0),
     c_18_plus |-> IntCell(0), total_enrol |-> IntCell(0), mig_flag |-> IntCell(0),
     dist_count |-> 0, c_bio_5_17 |-> IntCell(0), c_bio_17_plus |-> IntCell(0),
     total_bio |-> IntCell(0),
     daily |-> <<>>, dist_data |-> <<>>, daily_bio |-> <<>>,
     district_risk |-> <<>>, anomalies |-> <<>>, shown |-> <<>>]

ViewIdle ==
    /\ filtered_dfs = <<>> /\ active_view = "Overview"
    /\ view = NoView /\ vpc = "rendered"

\* detect_anomalies is not being called
NoCall == [ret |-> "idle"]
DetIdle == det_df = <<>> /\ det = NoCall

InitCols ==
    /\ InitVariant \/ InitKeys
    /\ IngestIdle
    /\ ViewIdle
    /\ DetIdle
    /\ dtype = "none"
    /\ pc = "raw"

\* df = normalize_columns(df)
normalize_columns ==
    /\ pc = "raw"
    /\ df' = NormalizeColumns(df)
    /\ pc' = "normalized"
    /\ UNCHANGED <<raw, dtype>>
    /\ UNCHANGED ingvars
    /\ UNCHANGED viewvars
    /\ UNCHANGED detvars

\* dtype = identify_dataset(df)
identify_dataset ==
    /\ pc = "normalized"
    /\ dtype' = IdentifyDataset(df)
    /\ pc' = "identified"
    /\ UNCHANGED <<raw, df>>
    /\ UNCHANGED ingvars
    /\ UNCHANGED viewvars
    /\ UNCHANGED detvars

NextCols == normalize_columns \/ identify_dataset

SpecCols == InitCols /\ [][NextCols]_vars

(***************************************************************************)
(* C4: header variants                                                     *)
(***************************************************************************)
SingleSeparators == { <<"_">>, <<" ">>, <<"-">> }

\* what normalize_columns makes of a separator: one underscore for each space
\* and each hyphen, every other character kept
SepImage(sep) == [j \in 1..Len(sep) |-> IF sep[j] \in {" ", "-"} THEN "_" ELSE sep[j]]

IsVariant == raw.kind = "variant" /\ pc # "raw"

\* C4 as stated: every written variant of a logical name (any case, any
\* surrounding whitespace, any run of whitespace, hyphens or underscores between
\* the words) normalizes to the canonical key, the words joined by one underscore.
C4_AnyVariantIsCanonical ==
    IsVariant => df.columns[1] = Canonical(raw.words)

\* C4 as amended: variants that differ by case, by surrounding whitespace or by
\* which single separator character (space, hyphen, underscore) stands between
\* the words normalize to the canonical key; in general each space and each
\* hyphen becomes one underscore and any other separator character is kept;
\* a file whose header is a variant of age_0_5 classifies as enrolment.
C4_SingleSeparatorVariants ==
    IsVariant =>
      /\ df.columns[1] =
            Join(raw.words, [i \in 1..Len(raw.seps) |-> SepImage(raw.seps[i])])
      /\ (\A i \in 1..Len(raw.seps) : raw.seps[i] \in SingleSeparators)
            => /\ df.columns[1] = Canonical(raw.words)
               /\ (pc = "identified" /\ Canonical(raw.words) = K_age_0_5)
                     => dtype = "enrolment"

\* the header ' AGE-0-5' has been normalized and classified
C4_Witness ==
    /\ IsVariant /\ pc = "identified"
    /\ raw.words = <<W_age, <<"0">>, <<"5">> >>
    /\ raw.case = "upper" /\ raw.lead = <<" ">>
    /\ raw.seps = << <<"-">>, <<"-">> >>
    /\ df.columns = <<K_age_0_5>>
    /\ dtype = "enrolment"

(***************************************************************************)
(* C5: classification                                                      *)
(***************************************************************************)
\* C5: identify_dataset returns exactly one of the four categories, decided by
\* the set of column keys alone: enrolment if an enrolment key is present, else
\* demographic if a demographic key is present, else biometric if a biometric
\* key is present, else unknown; the order of the columns and the number of
\* data rows play no part.
C5_ClassifyByPriority ==
    pc = "identified" =>
      LET cols == ColumnSet(df)
          e == cols \cap EnrolmentKeys # {}
          d == cols \cap DemographicKeys # {}
          b == cols \cap BiometricKeys # {}
      IN  /\ dtype \in Categories
          /\ e => dtype = "enrolment"
          /\ (~e /\ d) => dtype = "demographic"
          /\ (~e /\ ~d /\ b) => dtype = "biometric"
          /\ (~e /\ ~d /\ ~b) => dtype = "unknown"

\* a header-only file holding keys of all three categories, biometric key first
C5_Witness ==
    /\ pc = "identified" /\ raw.kind = "keys"
    /\ {K_age_0_to_5, K_demo_update, K_bio_update} \subseteq ColumnSet(df)
    /\ df.columns[1] = K_state
    /\ df.rows = <<>>
    /\ dtype = "enrolment"

(***************************************************************************)
(* Uploaded files and pd.read_csv                                          *)
(***************************************************************************)
\* an uploaded file: its name, what its bytes are ("empty": no byte, "garbled":
\* not parsable as delimited text, "csv"), its header line and its data lines
File(name, bytes, header, lines) ==
    [name |-> name, bytes |-> bytes, header |-> header, lines |-> lines]

\* the exception pd.read_csv(file) raises, "none" if it returns a frame
ReadCsvRaises(file) ==
    IF file.bytes = "empty" THEN "EmptyDataError"
    ELSE IF file.bytes = "garbled" THEN "ParserError"
    ELSE "none"

\* the frame pd.read_csv(file) returns: a column holding any text is an object
\* column, the digits in it stay strings ("numstr"); other columns keep their
\* integers and NaN
ReadCsvFrame(file) ==
    LET ncols == Len(file.header)
        isobject(c) == \E l \in 1..Len(file.lines) : file.lines[l][c].t = "str"
        cell(l, c) ==
            IF isobject(c) /\ file.lines[l][c].t = "int"
            THEN [t |-> "numstr", v |-> file.lines[l][c].v]
            ELSE file.lines[l][c]
    IN  Frame(file.header,
              [l \in 1..Len(file.lines) |->
                  Row(file.name, l, [c \in 1..ncols |-> cell(l, c)])])

\* pd.to_datetime(..., errors='coerce'), one cell: the text numbered v > 0 reads
\* as the date v (yyyymmdd), the text numbered 0 reads as no date; an integer is
\* taken as nanoseconds since 1970-01-01
ToDatetimeCell(c) ==
    CASE c.t = "str" /\ c.v > 0 -> DateCell(c.v)
      [] c.t = "str" /\ c.v = 0 -> NaTCell
      [] c.t = "nan" -> NaTCell
      [] c.t = "int" -> DateCell(19700101)
      [] c.t \in {"date", "nat"} -> c

(***************************************************************************)
(* Column conversions                                                      *)
(***************************************************************************)
\* .dt.year and .dt.month_name() of a date yyyymmdd; NaN for NaT
YearCell(c)  == IF c.t = "date" THEN IntCell(c.v \div 10000) ELSE NaNCell
MonthCell(c) == IF c.t = "date" THEN StrCell((c.v \div 100) % 100) ELSE NaNCell

\* pd.to_numeric(..., errors='coerce').fillna(0), one cell
ToNumericCell(c) ==
    CASE c.t = "int" -> c
      [] c.t = "numstr" -> IntCell(c.v)
      [] c.t = "str" -> IntCell(0)
      [] c.t = "nan" -> IntCell(0)

\* the conversions the code applies to a whole column, one cell
CellOp(op, c) ==
    CASE op = "to_datetime" -> ToDatetimeCell(c)
      [] op = "to_numeric" -> ToNumericCell(c)
      [] op = "year" -> YearCell(c)
      [] op = "month_name" -> MonthCell(c)

\* df[key] = op(df[key]), cell by cell
MapColumn(d, key, op) ==
    [d EXCEPT !.rows =
        [r \in 1..Len(d.rows) |->
            [d.rows[r] EXCEPT !.cells =
                [c \in 1..Len(d.columns) |->
                    IF d.columns[c] = key THEN CellOp(op, d.rows[r].cells[c])
                    ELSE d.rows[r].cells[c]]]]]

\* df[key] = op(df[from]) row by row: a new last column, or the old one overwritten
AssignColumn(d, key, from, op) ==
    LET src == ColumnIndex(d, from)
    IN  IF HasColumn(d, key)
        THEN [d EXCEPT !.rows =
                [r \in 1..Len(d.rows) |->
                    [d.rows[r] EXCEPT !.cells =
                        [c \in 1..Len(d.columns) |->
                            IF d.columns[c] = key THEN CellOp(op, d.rows[r].cells[src])
                            ELSE d.rows[r].cells[c]]]]]
        ELSE Frame(Append(d.columns, key),
                   [r \in 1..Len(d.rows) |->
                       [d.rows[r] EXCEPT !.cells = Append(@, CellOp(op, d.rows[r].cells[src]))]])

(***************************************************************************)
(* process_data                                                            *)
(***************************************************************************)
Diag(name, call, cause) == [file |-> name, call |-> call, cause |-> cause]

\* a plausible slip: the frame is stored whatever its type
StoreFrameAlways(dm, ty, d) ==
    [c \in (DOMAIN dm) \cup {ty} |-> IF c = ty THEN d ELSE dm[c]]

\* if dtype != 'unknown': data_map[dtype] = df
StoreFrame(dm, ty, d) ==
    IF ty # "unknown"
    THEN [c \in (DOMAIN dm) \cup {ty} |-> IF c = ty THEN d ELSE dm[c]]
    ELSE dm

\* lines 164 to 173: the frame read, its columns normalized, its date column
\* parsed
PreparedFrame(file) ==
    LET d1 == NormalizeColumns(ReadCsvFrame(file))
    IN  IF HasColumn(d1, K_date) THEN MapColumn(d1, K_date, "to_datetime") ELSE d1

\* df['date'] is a frame when two columns are called date, and pd.to_datetime
\* raises ValueError on it
DateRaises(file) == CountColumn(NormalizeColumns(ReadCsvFrame(file)), K_date) > 1

\* the body of the for loop for one file: the new data_map, what was shown to
\* the operator, and whether the except clause was taken
ProcessFile(dm, file) ==
    LET exc == ReadCsvRaises(file)
        d2 == PreparedFrame(file)
        ty == IdentifyDataset(d2)
    IN  IF exc # "none"
        THEN [data_map |-> dm, diags |-> <<Diag(file.name, "error", exc)>>, raised |-> TRUE]
        ELSE IF DateRaises(file)
        THEN [data_map |-> dm, diags |-> <<Diag(file.name, "error", "ValueError")>>,
              raised |-> TRUE]
        ELSE [data_map |-> StoreFrame(dm, ty, d2),
              diags |-> IF ty = "unknown"
                        THEN <<Diag(file.name, "warning", "unidentified")>>
                        ELSE <<>>,
              raised |-> FALSE]

\* a plausible slip: the try block around the loop, so that the first file that
\* raises ends the loop
NextFileAbort(i, n, raised) == IF raised THEN n ELSE i + 1

\* for file in uploaded_files, with the try block inside the loop: the loop goes
\* on with the next file whether or not the body raised
NextFile(i, n, raised) == i + 1

process_data_file ==
    /\ fn = "process_data" /\ ipc = "loop"
    /\ file_i < Len(uploaded_files)
    /\ LET r == ProcessFile(data_map, uploaded_files[file_i + 1])
       IN  /\ data_map' = r.data_map
           /\ diagnostics' = diagnostics \o r.diags
           /\ file_i' = NextFile(file_i, Len(uploaded_files), r.raised)
    /\ UNCHANGED <<uploaded_files, fn, data_frames, loaded, ipc>>
    /\ UNCHANGED colvars
    /\ UNCHANGED viewvars
    /\ UNCHANGED detvars

\* return data_map
process_data_return ==
    /\ fn = "process_data" /\ ipc = "loop"
    /\ file_i >= Len(uploaded_files)
    /\ ipc' = "returned"
    /\ UNCHANGED <<uploaded_files, fn, file_i, data_map, data_frames, loaded, diagnostics>>
    /\ UNCHANGED colvars
    /\ UNCHANGED viewvars
    /\ UNCHANGED detvars

(***************************************************************************)
(* load_data                                                               *)
(***************************************************************************)
K_Date       == <<"D","a","t","e">>
K_Year       == <<"Y","e","a","r">>
K_Month_name == <<"M","o","n","t","h","_","n","a","m","e">>

\* ['age', 'count', 'total', 'enrolment', 'bio']
NumericWords ==
    { <<"a","g","e">>, <<"c","o","u","n","t">>, <<"t","o","t","a","l">>,
      K_enrolment, <<"b","i","o">> }

\* any(x in col.lower() for x in [...])
IsNumericColumn(col) == \E x \in NumericWords : Contains(StrLower(col), x)

\* the body of load_data's for loop for one file
LoadFile(frames, file) ==
    LET exc == ReadCsvRaises(file)
        part == ReadCsvFrame(file)
    IN  IF file.bytes = "empty"
        THEN [frames |-> frames, diags |-> <<Diag(file.name, "warning", "empty")>>,
              raised |-> FALSE]
        ELSE IF exc # "none"
        THEN [frames |-> frames, diags |-> <<Diag(file.name, "warning", exc)>>,
              raised |-> TRUE]
        ELSE IF Len(part.rows) = 0 \/ Len(part.columns) = 0
        THEN [frames |-> frames, diags |-> <<Diag(file.name, "warning", "no usable data")>>,
              raised |-> FALSE]
        ELSE [frames |-> Append(frames, part), diags |-> <<>>, raised |-> FALSE]

\* the columns of pd.concat(frames): each frame's new columns after those before
RECURSIVE ConcatColumns(_)
ConcatColumns(frames) ==
    IF Len(frames) = 0 THEN <<>>
    ELSE LET before == ConcatColumns(SubSeq(frames, 1, Len(frames) - 1))
             last == frames[Len(frames)]
         IN  before \o SelectSeq(last.columns,
                                 LAMBDA k : \A i \in 1..Len(before) : before[i] # k)

\* the rows of one frame laid over the columns cols, NaN where it has no such column
Reindex(d, cols) ==
    [r \in 1..Len(d.rows) |->
        [d.rows[r] EXCEPT !.cells =
            [c \in 1..Len(cols) |->
                IF HasColumn(d, cols[c]) THEN d.rows[r].cells[ColumnIndex(d, cols[c])]
                ELSE NaNCell]]]

RECURSIVE ConcatRows(_, _)
ConcatRows(frames, cols) ==
    IF Len(frames) = 0 THEN <<>>
    ELSE Reindex(frames[1], cols) \o ConcatRows(Tail(frames), cols)

\* pd.concat(data_frames, ignore_index=True)
ConcatFrames(frames) ==
    LET cols == ConcatColumns(frames)
    IN  Frame(cols, ConcatRows(frames, cols))

\* for col in df.columns: if any(...): df[col] = pd.to_numeric(...).fillna(0)
RECURSIVE NumericConversion(_, _)
NumericConversion(d, c) ==
    IF c > Len(d.columns) THEN d
    ELSE IF IsNumericColumn(d.columns[c])
    THEN NumericConversion(MapColumn(d, d.columns[c], "to_numeric"), c + 1)
    ELSE NumericConversion(d, c + 1)

\* the cleaning raises when a column it assigns to exists twice: df[col] is a
\* frame then, and pd.to_datetime / pd.to_numeric reject it
CleanRaises(d) ==
    \/ CountColumn(d, K_Date) > 1
    \/ \E c \in 1..Len(d.columns) :
          IsNumericColumn(d.columns[c]) /\ CountColumn(d, d.columns[c]) > 1

\* lines 45 to 63: combine, standardize the column names, dates, numbers
CombineAndClean(frames) ==
    LET d0 == ConcatFrames(frames)
        d1 == [d0 EXCEPT !.columns =
                 [i \in 1..Len(d0.columns) |-> StrCapitalize(StrStrip(d0.columns[i]))]]
        d2 == IF HasColumn(d1, K_Date)
              THEN AssignColumn(
                     AssignColumn(MapColumn(d1, K_Date, "to_datetime"),
                                  K_Year, K_Date, "year"),
                     K_Month_name, K_Date, "month_name")
              ELSE d1
    IN  IF CleanRaises(d1) THEN [raised |-> TRUE, df |-> d1]
        ELSE [raised |-> FALSE, df |-> NumericConversion(d2, 1)]

load_data_file ==
    /\ fn = "load_data" /\ ipc = "loop"
    /\ file_i < Len(uploaded_files)
    /\ LET r == LoadFile(data_frames, uploaded_files[file_i + 1])
       IN  /\ data_frames' = r.frames
           /\ diagnostics' = diagnostics \o r.diags
           /\ file_i' = NextFile(file_i, Len(uploaded_files), r.raised)
    /\ UNCHANGED <<uploaded_files, fn, data_map, loaded, ipc>>
    /\ UNCHANGED colvars
    /\ UNCHANGED viewvars
    /\ UNCHANGED detvars

\* after the loop: None with st.error when nothing was collected or the cleaning
\* raised, else the combined frame
load_data_return ==
    /\ fn = "load_data" /\ ipc = "loop"
    /\ file_i >= Len(uploaded_files)
    /\ IF Len(data_frames) = 0
       THEN /\ loaded' = <<>>
            /\ diagnostics' = Append(diagnostics, Diag(0, "error", "no valid data"))
       ELSE LET r == CombineAndClean(data_frames)
            IN  IF r.raised
                THEN /\ loaded' = <<>>
                     /\ diagnostics' = Append(diagnostics, Diag(0, "error", "TypeError"))
                ELSE /\ loaded' = <<r.df>>
                     /\ UNCHANGED diagnostics
    /\ ipc' = "returned"
    /\ UNCHANGED <<uploaded_files, fn, file_i, data_map, data_frames>>
    /\ UNCHANGED colvars
    /\ UNCHANGED viewvars
    /\ UNCHANGED detvars

(***************************************************************************)
(* The uploads                                                             *)
(***************************************************************************)
MaxFiles == 3

H_Date       == <<"D","a","t","e">>
H_dateSp     == <<"d","a","t","e"," ">>
H_District   == <<"D","i","s","t","r","i","c","t">>
H_State      == <<"S","t","a","t","e">>
H_Pincode    == <<"P","i","n","c","o","d","e">>
H_AGE_0_5    == <<" ","A","G","E","-","0","-","5">>
H_Age_5_17   == <<"A","g","e"," ","5"," ","1","7">>
H_Enrolment  == <<"E","n","r","o","l","m","e","n","t">>
H_Demo_Age   == <<"D","e","m","o","_","A","g","e","_","5","_","1","7">>
H_BIO_AGE_17 == <<"B","I","O","_","A","G","E","_","1","7","_">>

\* what a file can hold; a text cell StrCell(0) is one that is neither a number
\* nor a date
Contents ==
    { [bytes |-> "empty", header |-> <<>>, lines |-> <<>>],
      [bytes |-> "garbled", header |-> <<>>, lines |-> <<>>],
      \* enrolment, headers in another spelling, one unreadable date
      [bytes |-> "csv", header |-> <<H_Date, H_District, H_AGE_0_5>>,
       lines |-> << <<StrCell(20250913), StrCell(1), IntCell(3)>>,
                    <<StrCell(0), StrCell(2), IntCell(5)>> >>],
      \* enrolment, a text and a negative number among the counts
      [bytes |-> "csv", header |-> <<K_district, K_age_0_5, H_Age_5_17>>,
       lines |-> << <<StrCell(1), IntCell(4), StrCell(0)>>,
                    <<StrCell(2), IntCell(-2), IntCell(7)>> >>],
      \* demographic
      [bytes |-> "csv", header |-> <<K_date, H_Demo_Age>>,
       lines |-> << <<StrCell(20250914), IntCell(2)>> >>],
      \* biometric, an empty cell among the counts
      [bytes |-> "csv", header |-> <<H_District, K_bio_age_5_17, H_BIO_AGE_17>>,
       lines |-> << <<StrCell(1), IntCell(1), NaNCell>> >>],
      \* no category
      [bytes |-> "csv", header |-> <<H_State, H_Pincode>>,
       lines |-> << <<StrCell(3), IntCell(411001)>> >>],
      \* enrolment, header line only
      [bytes |-> "csv", header |-> <<H_Enrolment>>, lines |-> <<>>],
      \* two columns that normalize to date
      [bytes |-> "csv", header |-> <<H_Date, H_dateSp, K_age_0_5>>,
       lines |-> << <<StrCell(20250913), StrCell(20250913), IntCell(1)>> >>] }

\* the uploads are named by their place in the batch
Batches ==
    UNION { [1..n -> Contents] : n \in 0..MaxFiles }

Init ==
    /\ \E b \in Batches :
         uploaded_files =
           [k \in 1..Len(b) |-> File(k, b[k].bytes, b[k].header, b[k].lines)]
    /\ fn \in {"process_data", "load_data"}
    /\ file_i = 0
    /\ data_map = <<>> /\ data_frames = <<>> /\ loaded = <<>>
    /\ diagnostics = <<>>
    /\ ipc = "loop"
    /\ ColsIdle
    /\ ViewIdle
    /\ DetIdle

Next ==
    \/ process_data_file
    \/ process_data_return
    \/ load_data_file
    \/ load_data_return

Spec == Init /\ [][Next]_vars

(***************************************************************************)
(* Claims about ingestion                                                  *)
(***************************************************************************)
Returned(f) == fn = f /\ ipc = "returned"

\* the file reaches identify_dataset in process_data
Classifies(file) == ReadCsvRaises(file) = "none" /\ ~DateRaises(file)
ClassOf(file) == IdentifyDataset(PreparedFrame(file))

\* the file is empty or unparsable
Fails(file) == file.bytes \in {"empty", "garbled"}

Without(files, k) == SelectSeq(files, LAMBDA f : f.name # k)
DiagsOf(k) == SelectSeq(diagnostics, LAMBDA d : d.file = k)
DiagsOfOthers(k) == SelectSeq(diagnostics, LAMBDA d : d.file # k /\ d.file # 0)

\* the two loops run as functions of a batch
RECURSIVE RunProcessData(_, _)
RunProcessData(files, n) ==
    IF n = 0 THEN [data_map |-> <<>>, diags |-> <<>>]
    ELSE LET p == RunProcessData(files, n - 1)
             r == ProcessFile(p.data_map, files[n])
         IN  [data_map |-> r.data_map, diags |-> p.diags \o r.diags]

RECURSIVE RunLoadData(_, _)
RunLoadData(files, n) ==
    IF n = 0 THEN [frames |-> <<>>, diags |-> <<>>]
    ELSE LET p == RunLoadData(files, n - 1)
             r == LoadFile(p.frames, files[n])
         IN  [frames |-> r.frames, diags |-> p.diags \o r.diags]

\* C1 as stated: when process_data has returned, the table under each category
\* is the row-wise concatenation, in arrival order, of the frames of all the
\* files of the batch that classify as it, and a category no file classifies as
\* has no table.
C1_TablesAreConcatenations ==
    Returned("process_data") =>
      \A c \in Categories \ {"unknown"} :
        LET mine == SelectSeq(uploaded_files,
                              LAMBDA f : Classifies(f) /\ ClassOf(f) = c)
            frames == [i \in 1..Len(mine) |-> PreparedFrame(mine[i])]
        IN  IF Len(mine) = 0 THEN c \notin DOMAIN data_map
            ELSE c \in DOMAIN data_map /\ data_map[c] = ConcatFrames(frames)

\* C2: when the batch has been handled, for every file of it that is empty or
\* unparsable, what was collected (data_map, data_frames) and what the other
\* files reported are what the batch without that file gives, the whole batch
\* was gone through, and the file has exactly one diagnostic, which for an
\* empty file is the one for empty input.
C2_FileIsolation ==
    ipc = "returned" =>
      \A k \in 1..Len(uploaded_files) :
        Fails(uploaded_files[k]) =>
          LET rest == Without(uploaded_files, k)
          IN  /\ file_i = Len(uploaded_files)
              /\ Len(DiagsOf(k)) = 1
              /\ fn = "process_data" =>
                    /\ data_map = RunProcessData(rest, Len(rest)).data_map
                    /\ DiagsOfOthers(k) = RunProcessData(rest, Len(rest)).diags
                    /\ uploaded_files[k].bytes = "empty"
                          => DiagsOf(k)[1].cause = "EmptyDataError"
              /\ fn = "load_data" =>
                    /\ data_frames = RunLoadData(rest, Len(rest)).frames
                    /\ DiagsOfOthers(k) = RunLoadData(rest, Len(rest)).diags
                    /\ uploaded_files[k].bytes = "empty"
                          => DiagsOf(k)[1].cause = "empty"

\* three files, the second empty, the first and the third ingested
C2_Witness ==
    /\ Returned("process_data")
    /\ Len(uploaded_files) = 3
    /\ uploaded_files[2].bytes = "empty"
    /\ Classifies(uploaded_files[1]) /\ ClassOf(uploaded_files[1]) = "enrolment"
    /\ Classifies(uploaded_files[3]) /\ ClassOf(uploaded_files[3]) = "biometric"
    /\ Len(uploaded_files[1].lines) > 0
    /\ DOMAIN data_map = {"enrolment", "biometric"}
    /\ data_map["enrolment"].rows[1].src = 1
    /\ data_map["biometric"].rows[1].src = 3
    /\ diagnostics = <<Diag(2, "error", "EmptyDataError")>>

\* C3: data_map never has the key unknown, and every file handled so far whose
\* normalized columns match no category has no row in any table of data_map and
\* exactly one diagnostic, the could-not-identify warning that names it.
C3_UnknownNeverStored ==
    fn = "process_data" =>
      /\ "unknown" \notin DOMAIN data_map
      /\ \A k \in 1..file_i :
            (Classifies(uploaded_files[k]) /\ ClassOf(uploaded_files[k]) = "unknown") =>
              /\ \A c \in DOMAIN data_map :
                    \A r \in 1..Len(data_map[c].rows) : data_map[c].rows[r].src # k
              /\ DiagsOf(k) = <<Diag(k, "warning", "unidentified")>>

\* a file of no category between two files that were stored
C3_Witness ==
    /\ Returned("process_data")
    /\ Len(uploaded_files) = 3
    /\ Classifies(uploaded_files[2]) /\ ClassOf(uploaded_files[2]) = "unknown"
    /\ Len(uploaded_files[2].lines) > 0
    /\ DOMAIN data_map = {"enrolment", "demographic"}
    /\ diagnostics = <<Diag(2, "warning", "unidentified")>>

\* the count columns: keys of the age, demo, bio, total and enrolment families
MetricWords ==
    { <<"a","g","e">>, <<"d","e","m","o">>, <<"b","i","o">>,
      <<"t","o","t","a","l">>, K_enrolment }
IsMetricColumn(col) == \E x \in MetricWords : Contains(StrLower(col), x)

AllCountsClean(d) ==
    \A c \in 1..Len(d.columns) :
      IsMetricColumn(d.columns[c]) =>
        \A r \in 1..Len(d.rows) :
          d.rows[r].cells[c].t = "int" /\ d.rows[r].cells[c].v >= 0

\* C8 as stated: in every table an ingestion returns, every cell of every
\* metric-like column is a non-negative integer.
C8_CountsAreNonNegativeIntegers ==
    ipc = "returned" =>
      /\ \A c \in DOMAIN data_map : AllCountsClean(data_map[c])
      /\ \A i \in 1..Len(loaded) : AllCountsClean(loaded[i])

\* C8 on load_data alone
C8_LoadDataCountsClean ==
    Returned("load_data") => \A i \in 1..Len(loaded) : AllCountsClean(loaded[i])

(***************************************************************************)
(* Sums and groupby                                                        *)
(***************************************************************************)
\* NaN and NaT are what pandas counts as missing
IsNull(c) == c.t \in {"nan", "nat"}
IsText(c) == c.t \in {"str", "numstr"}

RECURSIVE SumInts(_)
SumInts(cells) ==
    IF Len(cells) = 0 THEN 0
    ELSE (IF cells[1].t = "int" THEN cells[1].v ELSE 0) + SumInts(Tail(cells))

\* Series.sum(): missing cells are skipped; over an object column the result is
\* no number (a concatenated text or a TypeError), written StrCell(0)
SumCells(cells) ==
    IF \E i \in 1..Len(cells) : IsText(cells[i]) THEN StrCell(0)
    ELSE IntCell(SumInts(cells))

\* a plausible slip: a column the table lacks is read as df[key], which raises
KpiSumStrict(d, key) ==
    IF HasColumn(d, key) THEN SumCells(Column(d, key)) ELSE StrCell(0)

\* e_data.get(key, pd.Series(0)).sum()
KpiSum(d, key) ==
    IF HasColumn(d, key) THEN SumCells(Column(d, key)) ELSE IntCell(0)

\* the order groupby sorts its keys by: dates by day, texts alphabetically (the
\* texts are numbered in alphabetical order)
CellLess(a, b) == a.v < b.v

RECURSIVE SortCells(_)
SortCells(S) ==
    IF S = {} THEN <<>>
    ELSE LET least == CHOOSE a \in S : \A b \in S \ {a} : CellLess(a, b)
         IN  <<least>> \o SortCells(S \ {least})

\* the keys groupby(key) makes groups for: rows whose key is missing are dropped
GroupKeys(d, key) ==
    {c \in {d.rows[r].cells[ColumnIndex(d, key)] : r \in 1..Len(d.rows)} : ~IsNull(c)}

\* d.groupby(key)[cols].sum().reset_index(): one row per key, keys ascending
GroupBySum(d, key, cols) ==
    LET ks == SortCells(GroupKeys(d, key))
        members(k) == SelectSeq(d.rows, LAMBDA row : row.cells[ColumnIndex(d, key)] = k)
        sum(k, col) ==
            SumCells([r \in 1..Len(members(k)) |->
                         members(k)[r].cells[ColumnIndex(d, col)]])
    IN  Frame(<<key>> \o cols,
              [g \in 1..Len(ks) |->
                  Row(0, g, <<ks[g]>> \o [c \in 1..Len(cols) |-> sum(ks[g], cols[c])])])

\* .sort_values(key, ascending=False): every order of the rows in which the
\* values do not increase (the order of equal values is the sort's choice)
SortedDescending(d, key) ==
    LET n == Len(d.rows)
        col == ColumnIndex(d, key)
        perms == {p \in [1..n -> 1..n] : \A i, j \in 1..n : p[i] = p[j] => i = j}
    IN  { [d EXCEPT !.rows = [i \in 1..n |-> d.rows[p[i]]]] :
            p \in {q \in perms :
                     \A i \in 1..(n - 1) :
                        d.rows[q[i]].cells[col].v >= d.rows[q[i + 1]].cells[col].v} }

\* a + b of two column sums: a text among them ends in TypeError / ValueError
AddCells(a, b) == IF IsText(a) \/ IsText(b) THEN StrCell(0) ELSE IntCell(a.v + b.v)

(***************************************************************************)
(* The Overview view, lines 280 to 344                                     *)
(***************************************************************************)
AgeColumns == <<K_age_0_5, K_age_5_17, K_age_18_greater>>

\* [c for c in [...] if c in e_data.columns]
AvailableCols(d) == SelectSeq(AgeColumns, LAMBDA k : HasColumn(d, k))

\* the figures of the KPI cards
OverviewKpi(dfs) ==
    LET e == "enrolment" \in DOMAIN dfs
        b == "biometric" \in DOMAIN dfs
        c1 == IF e THEN KpiSum(dfs["enrolment"], K_age_0_5) ELSE IntCell(0)
        c2 == IF e THEN KpiSum(dfs["enrolment"], K_age_5_17) ELSE IntCell(0)
        c3 == IF e THEN KpiSum(dfs["enrolment"], K_age_18_greater) ELSE IntCell(0)
        b1 == IF b THEN KpiSum(dfs["biometric"], K_bio_age_5_17) ELSE IntCell(0)
        b2 == IF b THEN KpiSum(dfs["biometric"], K_bio_age_17_) ELSE IntCell(0)
    IN  [NoView EXCEPT
           !.c_0_5 = c1, !.c_5_17 = c2, !.c_18_plus = c3,
           !.total_enrol = AddCells(AddCells(c1, c2), c3),
           !.mig_flag = IF e THEN c3 ELSE IntCell(0),
           !.dist_count =
               IF e THEN Cardinality({dfs["enrolment"].rows[r].cells[
                                         ColumnIndex(dfs["enrolment"], K_district)] :
                                       r \in 1..Len(dfs["enrolment"].rows)})
               ELSE 0,
           !.c_bio_5_17 = b1, !.c_bio_17_plus = b2,
           !.total_bio = AddCells(b1, b2)]

\* the Overview view: the KPI cards, then the trend and the saturation chart of
\* the enrolment table; a text among the sums raises and nothing more is shown
render_overview ==
    /\ active_view = "Overview" /\ vpc = "start"
    /\ LET kpi == OverviewKpi(filtered_dfs)
           e == "enrolment" \in DOMAIN filtered_dfs
           e_data == filtered_dfs["enrolment"]
           cols == AvailableCols(e_data)
           plot == e /\ Len(cols) > 0 /\ HasColumn(e_data, K_date)
       IN  IF IsText(kpi.total_enrol) \/ IsText(kpi.total_bio)
           THEN view' = [kpi EXCEPT !.raised = TRUE]
           ELSE \E sorted \in
                    IF e /\ HasColumn(e_data, K_age_0_5)
                    THEN {<<x>> : x \in SortedDescending(
                              GroupBySum(e_data, K_district, <<K_age_0_5>>), K_age_0_5)}
                    ELSE {<<>>} :
                  view' = [kpi EXCEPT
                             !.daily = IF plot THEN <<GroupBySum(e_data, K_date, cols)>>
                                       ELSE <<>>,
                             !.shown = IF e /\ ~plot THEN <<"Date or Age columns missing">>
                                       ELSE <<>>,
                             !.dist_data = sorted]
    /\ vpc' = "rendered"
    /\ UNCHANGED <<filtered_dfs, active_view>>
    /\ UNCHANGED detvars
    /\ UNCHANGED ingvars
    /\ UNCHANGED colvars

(***************************************************************************)
(* The tables the views are given                                          *)
(***************************************************************************)
MaxAggRows == 2
MaxBioRows == 5

\* the layouts of the enrolment tables: each has the district column the
\* Overview view reads and a key that makes it an enrolment table
EnrolLayouts ==
    { <<K_date, K_district, K_age_0_5>>,
      <<K_date, K_district, K_enrolment>>,
      <<K_district, K_age_0_5, K_age_5_17>>,
      <<K_date, K_district, K_age_0_5, K_age_18_greater>> }

\* the cells a column of an enrolment table may hold after process_data: dates
\* and NaT under date, texts under district, and what read_csv left in the
\* count columns
CellsFor(key) ==
    CASE key = K_date -> {DateCell(20250913), DateCell(20250101), NaTCell}
      [] key = K_district -> {StrCell(1), StrCell(2)}
      [] key = K_age_0_5 -> {IntCell(1), IntCell(2), NaNCell}
      [] key = K_age_5_17 -> {IntCell(0), IntCell(3)}
      [] key = K_age_18_greater -> {IntCell(4), StrCell(0)}
      [] key = K_enrolment -> {IntCell(1), StrCell(0)}

\* the lines a table of this layout may hold
RECURSIVE RowCells(_)
RowCells(layout) ==
    IF Len(layout) = 0 THEN {<<>>}
    ELSE {<<c>> \o rest : c \in CellsFor(layout[1]), rest \in RowCells(Tail(layout))}

\* the enrolment table of this layout with these lines
EnrolTable(layout, lines) ==
    Frame(layout, [r \in DOMAIN lines |-> Row(1, r, lines[r])])

\* biometric tables with dates and the mandatory updates only
BioTrendTables ==
    UNION { { Frame(<<K_date, K_district, K_bio_age_5_17>>,
                    [r \in 1..n |-> Row(1, r, <<day[r], StrCell(1), IntCell(val[r])>>)]) :
                day \in [1..n -> CellsFor(K_date)], val \in [1..n -> {0, 1}] } :
            n \in 1..MaxAggRows }

\* the biometric tables of the anomaly section: line r is of district r or of
\* district 1 again
BioTables ==
    UNION { { Frame(<<K_district, K_bio_age_17_>>,
                    [r \in 1..n |-> Row(1, r, <<StrCell(IF dup[r] THEN 1 ELSE r),
                                                IntCell(val[r])>>)]) :
                dup \in [1..n -> BOOLEAN], val \in [1..n -> {0, 1}] } :
            n \in 0..MaxBioRows }

InitAgg ==
    /\ \/ \E layout \in EnrolLayouts, n \in 0..MaxAggRows :
             \E lines \in [1..n -> RowCells(layout)] :
                filtered_dfs = [c \in {"enrolment"} |-> EnrolTable(layout, lines)]
       \/ \E b \in BioTables \cup BioTrendTables :
             filtered_dfs = [c \in {"biometric"} |-> b]
    /\ active_view = "Overview"
    /\ view = NoView
    /\ vpc = "start"
    /\ DetIdle
    /\ IngestIdle
    /\ ColsIdle

NextAgg == render_overview

SpecAgg == InitAgg /\ [][NextAgg]_vars

(***************************************************************************)
(* Claims about aggregation                                                *)
(***************************************************************************)
OverviewOfEnrolment ==
    /\ active_view = "Overview" /\ vpc = "rendered"
    /\ "enrolment" \in DOMAIN filtered_dfs

\* the cells of column col in the rows of d whose key column holds k
CellsOfGroup(d, key, k, col) ==
    LET rows == SelectSeq(d.rows, LAMBDA row : row.cells[ColumnIndex(d, key)] = k)
    IN  [r \in 1..Len(rows) |-> rows[r].cells[ColumnIndex(d, col)]]

\* C9 as stated: the daily table has exactly one row per distinct date value of
\* the input rows, in ascending order of the date, each metric of a row is the
\* sum of that metric over the input rows of that date, and so the metric's
\* total over the daily rows is its total over the input rows, the figure of
\* the KPI card.
C9_GroupedTableCountsEveryRow ==
    (OverviewOfEnrolment /\ view.daily # <<>>) =>
      LET e_data == filtered_dfs["enrolment"]
          daily == view.daily[1]
          keys == {e_data.rows[r].cells[ColumnIndex(e_data, K_date)] :
                     r \in 1..Len(e_data.rows)}
          cols == AvailableCols(e_data)
      IN  /\ {daily.rows[g].cells[1] : g \in 1..Len(daily.rows)} = keys
          /\ Len(daily.rows) = Cardinality(keys)
          /\ \A g \in 1..(Len(daily.rows) - 1) :
                CellLess(daily.rows[g].cells[1], daily.rows[g + 1].cells[1])
          /\ \A g \in 1..Len(daily.rows), c \in 1..Len(cols) :
                daily.rows[g].cells[c + 1] =
                  IntCell(SumInts(CellsOfGroup(e_data, K_date, daily.rows[g].cells[1],
                                               cols[c])))
          /\ \A c \in 1..Len(cols) :
                /\ SumInts(Column(daily, cols[c])) = SumInts(Column(e_data, cols[c]))
                /\ cols[c] = K_age_0_5 =>
                      view.c_0_5 = IntCell(SumInts(Column(daily, cols[c])))

\* C10 as stated: for every metric the enrolment table lacks, the total is 0
\* and, the table having its date column, the daily table is built and holds
\* the value 0 for that metric in every group; a table with no rows gives an
\* empty daily table.
C10_AbsentMetricIsZeroInEveryGroup ==
    (OverviewOfEnrolment /\ ~view.raised) =>
      LET e_data == filtered_dfs["enrolment"]
      IN  \A m \in {K_age_0_5, K_age_5_17, K_age_18_greater} :
            (~HasColumn(e_data, m) /\ HasColumn(e_data, K_date)) =>
              /\ view.daily # <<>>
              /\ HasColumn(view.daily[1], m)
              /\ \A g \in 1..Len(view.daily[1].rows) :
                    view.daily[1].rows[g].cells[ColumnIndex(view.daily[1], m)] = IntCell(0)

\* the KPI figure of a metric
KpiOf(m) ==
    CASE m = K_age_0_5 -> view.c_0_5
      [] m = K_age_5_17 -> view.c_5_17
      [] m = K_age_18_greater -> view.c_18_plus
      [] m = K_bio_age_5_17 -> view.c_bio_5_17
      [] m = K_bio_age_17_ -> view.c_bio_17_plus

\* C10 as amended: a metric column the table lacks is never an error; its KPI
\* total is 0; the daily table is built over the metric columns the table has,
\* so an absent metric has no column in it; with no requested metric or no
\* date column in the table there is no daily table and a warning is shown; the
\* view raises only over a text in a column that is there; a table with no rows
\* gives an empty daily table and totals of 0.
C10_AbsentMetricTotalsZero ==
    (active_view = "Overview" /\ vpc = "rendered") =>
      /\ "biometric" \in DOMAIN filtered_dfs =>
            \A m \in {K_bio_age_5_17, K_bio_age_17_} :
              ~HasColumn(filtered_dfs["biometric"], m) => KpiOf(m) = IntCell(0)
      /\ "enrolment" \in DOMAIN filtered_dfs =>
            LET e_data == filtered_dfs["enrolment"]
                cols == AvailableCols(e_data)
            IN  /\ \A m \in {K_age_0_5, K_age_5_17, K_age_18_greater} :
                      ~HasColumn(e_data, m) => KpiOf(m) = IntCell(0)
                /\ view.raised =>
                      \E c \in 1..Len(cols) :
                        \E r \in 1..Len(e_data.rows) :
                          IsText(e_data.rows[r].cells[ColumnIndex(e_data, cols[c])])
                /\ ~view.raised =>
                      /\ (view.daily # <<>>) <=> (Len(cols) > 0 /\ HasColumn(e_data, K_date))
                      /\ view.daily = <<>> => Len(view.shown) = 1
                      /\ view.daily # <<>> =>
                            /\ view.daily[1].columns = <<K_date>> \o cols
                            /\ Len(e_data.rows) = 0 => view.daily[1].rows = <<>>
                      /\ Len(e_data.rows) = 0 => view.total_enrol = IntCell(0)

\* a table with dates and age_0_5 but neither of the other two age columns
C10_Witness ==
    /\ OverviewOfEnrolment /\ ~view.raised
    /\ filtered_dfs["enrolment"].columns = <<K_date, K_district, K_age_0_5>>
    /\ Len(filtered_dfs["enrolment"].rows) = 2
    /\ view.daily # <<>>
    /\ Len(view.daily[1].rows) = 2
    /\ view.c_5_17 = IntCell(0) /\ view.c_18_plus = IntCell(0)
    /\ view.total_enrol = IntCell(3)

(***************************************************************************)
(* z-scores                                                                *)
(***************************************************************************)
\* a z-score that is a number: its sign and its square num / den, exactly
ZCell(sgn, num, den) == [t |-> "z", v |-> [sgn |-> sgn, num |-> num, den |-> den]]
BoolCell(b) == [t |-> "bool", v |-> b]

\* a threshold n / d
Ratio(n, d) == [n |-> n, d |-> d]

RECURSIVE SumSquares(_)
SumSquares(cells) ==
    IF Len(cells) = 0 THEN 0
    ELSE cells[1].v * cells[1].v + SumSquares(Tail(cells))

Sign(x) == IF x > 0 THEN 1 ELSE IF x < 0 THEN -1 ELSE 0

\* n times the sum of the squared deviations from the mean: n * Q - S * S
Spread(cells) == Len(cells) * SumSquares(cells) - SumInts(cells) * SumInts(cells)

\* Series.std() is NaN for fewer than two values (the denominator is n - 1) and
\* 0 when all values are equal
StdIsNaN(cells) == Len(cells) < 2
StdIsZero(cells) == Len(cells) >= 2 /\ Spread(cells) = 0

\* (x - mean) / std for the i-th value, when std is a positive number:
\* ((n x - S) / n)^2 / (Spread / (n (n - 1))) = (n x - S)^2 (n - 1) / (n Spread)
ZScore(cells, i) ==
    LET n == Len(cells)
        dev == n * cells[i].v - SumInts(cells)
    IN  ZCell(Sign(dev), dev * dev * (n - 1), n * Spread(cells))

\* np.abs(z) > threshold, for a threshold that is not negative
ZAbsGreater(z, th) ==
    z.t = "z" /\ z.v.num * th.d * th.d > th.n * th.n * z.v.den

\* a plausible slip: the sign of the z-score is not looked at
ZGreaterEitherSide(z, th) ==
    z.t = "z" /\ z.v.num * th.d * th.d > th.n * th.n * z.v.den

\* z > threshold, for a threshold that is not negative; NaN > threshold is False
ZGreater(z, th) ==
    z.t = "z" /\ z.v.sgn = 1 /\ z.v.num * th.d * th.d > th.n * th.n * z.v.den

\* df[key] = the cells given, as a new last column
AppendColumn(d, key, cells) ==
    Frame(Append(d.columns, key),
          [r \in 1..Len(d.rows) |-> [d.rows[r] EXCEPT !.cells = Append(@, cells[r])]])

(***************************************************************************)
(* The Biometrics view, lines 396 to 445                                   *)
(***************************************************************************)
K_z_score == <<"z","_","s","c","o","r","e">>

\* the threshold of line 419
RiskThreshold == Ratio(3, 2)

\* line 418, one row: the division is not guarded, x / NaN and 0 / 0 are NaN
RiskZScore(cells, i) ==
    IF StdIsNaN(cells) \/ StdIsZero(cells) THEN NaNCell ELSE ZScore(cells, i)

\* lines 417 and 418: the district totals with their z_score column
DistrictRisk(b_data) ==
    LET g == GroupBySum(b_data, K_district, <<K_bio_age_17_>>)
        xs == Column(g, K_bio_age_17_)
    IN  AppendColumn(g, K_z_score, [i \in 1..Len(xs) |-> RiskZScore(xs, i)])

\* line 419: district_risk[district_risk['z_score'] > 1.5]
Anomalies(risk) ==
    [risk EXCEPT !.rows =
        SelectSeq(risk.rows,
                  LAMBDA row : ZGreater(row.cells[ColumnIndex(risk, K_z_score)],
                                        RiskThreshold))]

render_biometrics ==
    /\ active_view = "Biometrics" /\ vpc = "start"
    /\ IF "biometric" \notin DOMAIN filtered_dfs
       THEN view' = [NoView EXCEPT !.shown = <<"Please upload Biometric Dataset">>]
       ELSE LET b_data == filtered_dfs["biometric"]
                trend == HasColumn(b_data, K_bio_age_5_17) /\ HasColumn(b_data, K_date)
                risky == HasColumn(b_data, K_bio_age_17_)
                risk == DistrictRisk(b_data)
            IN  IF risky /\ \E r \in 1..Len(b_data.rows) :
                              IsText(b_data.rows[r].cells[ColumnIndex(b_data, K_bio_age_17_)])
                THEN view' = [NoView EXCEPT !.raised = TRUE]
                ELSE view' = [NoView EXCEPT
                       !.daily_bio = IF trend
                                     THEN <<GroupBySum(b_data, K_date, <<K_bio_age_5_17>>)>>
                                     ELSE <<>>,
                       !.district_risk = IF risky THEN <<risk>> ELSE <<>>,
                       !.anomalies = IF risky THEN <<Anomalies(risk)>> ELSE <<>>,
                       !.shown = IF ~risky THEN <<>>
                                 ELSE IF Len(Anomalies(risk).rows) > 0 THEN <<"ALERTS">>
                                 ELSE <<"No anomalies detected">>]
    /\ vpc' = "rendered"
    /\ UNCHANGED <<filtered_dfs, active_view>>
    /\ UNCHANGED detvars
    /\ UNCHANGED ingvars
    /\ UNCHANGED colvars

(***************************************************************************)
(* detect_anomalies                                                        *)
(***************************************************************************)
K_Z_Score    == <<"Z","_","S","c","o","r","e">>
K_Is_Anomaly == <<"I","s","_","A","n","o","m","a","l","y">>

\* the thresholds a caller passes; 2 is the default
Thresholds == {Ratio(1, 1), Ratio(3, 2), Ratio(2, 1)}

\* a plausible slip: df.empty is not looked at
DetectReturnsNoneUnlessEmpty(arg, metric_col) ==
    \/ arg = <<>>
    \/ ~HasColumn(arg[1], metric_col)

\* if df is None or df.empty or metric_col not in df.columns: return None
DetectReturnsNone(arg, metric_col) ==
    \/ arg = <<>>
    \/ Len(arg[1].rows) = 0 \/ Len(arg[1].columns) = 0
    \/ ~HasColumn(arg[1], metric_col)

\* lines 87 to 98: the frame with its Z_Score and Is_Anomaly columns
Detected(d, metric_col, th) ==
    LET xs == Column(d, metric_col)
        n == Len(xs)
    IN  IF StdIsZero(xs) \/ StdIsNaN(xs)
        THEN AppendColumn(AppendColumn(d, K_Z_Score, [i \in 1..n |-> IntCell(0)]),
                          K_Is_Anomaly, [i \in 1..n |-> BoolCell(FALSE)])
        ELSE AppendColumn(AppendColumn(d, K_Z_Score, [i \in 1..n |-> ZScore(xs, i)]),
                          K_Is_Anomaly,
                          [i \in 1..n |-> BoolCell(ZAbsGreater(ZScore(xs, i), th))])

\* one call detect_anomalies(det_df, metric_col, threshold): the columns are
\* added to the caller's frame itself, which is also what is returned
detect_anomalies ==
    /\ det.ret = "pending"
    /\ \E metric_col \in {K_bio_age_17_, K_bio_age_5_17}, th \in Thresholds :
         IF DetectReturnsNone(det_df, metric_col)
         THEN /\ det' = [ret |-> "None", metric_col |-> metric_col, threshold |-> th,
                         before |-> det_df]
              /\ UNCHANGED det_df
         ELSE /\ det' = [ret |-> "df", metric_col |-> metric_col, threshold |-> th,
                         before |-> det_df]
              /\ det_df' = <<Detected(det_df[1], metric_col, th)>>
    /\ UNCHANGED viewvars
    /\ UNCHANGED ingvars
    /\ UNCHANGED colvars

\* the grouped table a caller has at hand: the district totals of the biometric
\* table, or None when there is none
GroupedOf(dfs) ==
    IF "biometric" \in DOMAIN dfs /\ HasColumn(dfs["biometric"], K_bio_age_17_)
    THEN <<GroupBySum(dfs["biometric"], K_district, <<K_bio_age_17_>>)>>
    ELSE <<>>

InitAnom ==
    /\ \/ \E b \in BioTables \cup BioTrendTables :
             filtered_dfs = [c \in {"biometric"} |-> b]
       \/ \E layout \in EnrolLayouts :
             filtered_dfs = [c \in {"enrolment"} |-> EnrolTable(layout, <<>>)]
    /\ active_view = "Biometrics"
    /\ view = NoView
    /\ vpc = "start"
    /\ det_df = GroupedOf(filtered_dfs)
    /\ det = [ret |-> "pending"]
    /\ IngestIdle
    /\ ColsIdle

NextAnom == render_biometrics \/ detect_anomalies

SpecAnom == InitAnom /\ [][NextAnom]_vars

(***************************************************************************)
(* Claims about the anomaly test                                           *)
(***************************************************************************)
\* the z-score z is a number strictly greater than th / strictly less than -th
ZAbove(z, th) == z.t = "z" /\ z.v.sgn = 1 /\ z.v.num * th.d * th.d > th.n * th.n * z.v.den
ZBelow(z, th) == z.t = "z" /\ z.v.sgn = -1 /\ z.v.num * th.d * th.d > th.n * th.n * z.v.den

\* the statistics of a column are degenerate: fewer than two rows, or all equal
Degenerate(cells) ==
    Len(cells) < 2 \/ \A i, j \in 1..Len(cells) : cells[i].v = cells[j].v

\* the Biometrics view has computed district_risk
RiskComputed ==
    active_view = "Biometrics" /\ vpc = "rendered" /\ view.district_risk # <<>>

\* detect_anomalies has returned the frame
DetectReturnedFrame == det.ret = "df"

RiskFlagged(g) ==
    \E a \in 1..Len(view.anomalies[1].rows) :
        view.anomalies[1].rows[a] = view.district_risk[1].rows[g]

ZOfRisk(g) ==
    view.district_risk[1].rows[g].cells[ColumnIndex(view.district_risk[1], K_z_score)]
ZOfDetect(g) == det_df[1].rows[g].cells[ColumnIndex(det_df[1], K_Z_Score)]
FlagOfDetect(g) == det_df[1].rows[g].cells[ColumnIndex(det_df[1], K_Is_Anomaly)].v

\* the test of the district-risk path is one-sided
RiskIsOneSided ==
    (RiskComputed /\ ~Degenerate(Column(view.district_risk[1], K_bio_age_17_))) =>
      \A g \in 1..Len(view.district_risk[1].rows) :
        /\ RiskFlagged(g) <=> ZAbove(ZOfRisk(g), RiskThreshold)
        /\ ZOfRisk(g).v.sgn = -1 => ~RiskFlagged(g)

\* C6 as stated: with non-degenerate statistics, on both paths a row is flagged
\* exactly when its z-score is strictly greater than the threshold, and a row
\* below the mean is never flagged.
C6_OneSidedOnBothPaths ==
    /\ RiskIsOneSided
    /\ (DetectReturnedFrame /\ ~Degenerate(Column(det.before[1], det.metric_col))) =>
          \A g \in 1..Len(det_df[1].rows) :
            /\ FlagOfDetect(g) <=> ZAbove(ZOfDetect(g), det.threshold)
            /\ ZOfDetect(g).v.sgn = -1 => ~FlagOfDetect(g)

\* C6 as amended: with non-degenerate statistics, the district-risk path flags
\* a row exactly when its z-score is strictly greater than 1.5 and never flags
\* a row below the mean; detect_anomalies flags a row exactly when the absolute
\* value of its z-score is strictly greater than the threshold, so a row far
\* enough below the mean is flagged too.
C6_OneSidedRiskTwoSidedDetect ==
    /\ RiskIsOneSided
    /\ (DetectReturnedFrame /\ ~Degenerate(Column(det.before[1], det.metric_col))) =>
          \A g \in 1..Len(det_df[1].rows) :
            FlagOfDetect(g) <=>
              (ZAbove(ZOfDetect(g), det.threshold) \/ ZBelow(ZOfDetect(g), det.threshold))

\* five districts, one far below the others: the view flags none of them,
\* detect_anomalies with the threshold 1.5 flags the low one
C6_Witness ==
    /\ RiskComputed /\ DetectReturnedFrame
    /\ det.threshold = RiskThreshold
    /\ Len(view.district_risk[1].rows) = 5
    /\ Len(view.anomalies[1].rows) = 0
    /\ \E g \in 1..5 :
          /\ ZBelow(ZOfRisk(g), RiskThreshold)
          /\ ZBelow(ZOfDetect(g), RiskThreshold)
          /\ FlagOfDetect(g)

\* five districts, one far above the others: the view flags it
C6_WitnessSpike ==
    /\ RiskComputed
    /\ Len(view.district_risk[1].rows) = 5
    /\ Len(view.anomalies[1].rows) = 1
    /\ \E g \in 1..5 : ZAbove(ZOfRisk(g), RiskThreshold) /\ RiskFlagged(g)

IsZero(z) == (z.t = "int" /\ z.v = 0) \/ (z.t = "z" /\ z.v.num = 0)

\* C7 as stated: with degenerate statistics every row has the z-score 0, none
\* is NaN, and no row is flagged, on both paths.
C7_DegenerateGivesZero ==
    /\ (RiskComputed /\ Degenerate(Column(view.district_risk[1], K_bio_age_17_))) =>
          /\ \A g \in 1..Len(view.district_risk[1].rows) : IsZero(ZOfRisk(g))
          /\ Len(view.anomalies[1].rows) = 0
    /\ (DetectReturnedFrame /\ Degenerate(Column(det.before[1], det.metric_col))) =>
          \A g \in 1..Len(det_df[1].rows) : IsZero(ZOfDetect(g)) /\ ~FlagOfDetect(g)

\* C7 on detect_anomalies alone
C7_DetectDegenerateGivesZero ==
    (DetectReturnedFrame /\ Degenerate(Column(det.before[1], det.metric_col))) =>
      \A g \in 1..Len(det_df[1].rows) : IsZero(ZOfDetect(g)) /\ ~FlagOfDetect(g)

(***************************************************************************)
(* The alert list of the Biometrics view                                   *)
(***************************************************************************)
\* line 437: zip(anomalies['district'], anomalies['z_score']), one pair for
\* each row of anomalies, in the order of its rows
Alerts(anoms) ==
    [a \in 1..Len(anoms.rows) |->
        <<anoms.rows[a].cells[ColumnIndex(anoms, K_district)],
          anoms.rows[a].cells[ColumnIndex(anoms, K_z_score)]>>]

MaxDistricts == 8

\* the totals a district may have
AlertValues == {0, 9, 10}

\* biometric tables with one line for each of n districts
InitAlerts ==
    /\ \E n \in 0..MaxDistricts : \E val \in [1..n -> AlertValues] :
          filtered_dfs =
            [c \in {"biometric"} |->
               Frame(<<K_district, K_bio_age_17_>>,
                     [r \in 1..n |-> Row(1, r, <<StrCell(r), IntCell(val[r])>>)])]
    /\ active_view = "Biometrics"
    /\ view = NoView
    /\ vpc = "start"
    /\ DetIdle
    /\ IngestIdle
    /\ ColsIdle

NextAlerts == render_biometrics

SpecAlerts == InitAlerts /\ [][NextAlerts]_vars

\* a >= b for two z-scores that are numbers
ZGeq(a, b) ==
    /\ a.t = "z" /\ b.t = "z"
    /\ IF a.v.sgn # b.v.sgn THEN a.v.sgn > b.v.sgn
       ELSE IF a.v.sgn = 0 THEN TRUE
       ELSE IF a.v.den = b.v.den
            THEN IF a.v.sgn = 1 THEN a.v.num >= b.v.num ELSE a.v.num <= b.v.num
       ELSE IF a.v.sgn = 1 THEN a.v.num * b.v.den >= b.v.num * a.v.den
       ELSE a.v.num * b.v.den <= b.v.num * a.v.den

\* the alert list holds the flagged rows of district_risk and no others, as
\* (district, z_score) pairs, each once and in the order of the table
AlertsAreFlaggedRows ==
    RiskComputed =>
      LET risk == view.district_risk[1]
          flagged == SelectSeq(risk.rows,
                        LAMBDA row : ZAbove(row.cells[ColumnIndex(risk, K_z_score)],
                                            RiskThreshold))
      IN  Alerts(view.anomalies[1]) =
            [a \in 1..Len(flagged) |->
                <<flagged[a].cells[ColumnIndex(risk, K_district)],
                  flagged[a].cells[ColumnIndex(risk, K_z_score)]>>]

AlertsDescending ==
    RiskComputed =>
      LET alerts == Alerts(view.anomalies[1])
      IN  \A a \in 1..(Len(alerts) - 1) : ZGeq(alerts[a][2], alerts[a + 1][2])

\* C11 as stated: the alert list holds exactly the flagged rows of the
\* augmented grouped table as (group key value, zScore) pairs, and of any two
\* consecutive alerts the earlier has the greater or equal zScore.
C11_AlertsSortedByDescendingZ == AlertsAreFlaggedRows /\ AlertsDescending

\* C11, the part that holds: the alert list is the flagged rows, in the order
\* of the grouped table (ascending district)
C11_AlertsInTableOrder == AlertsAreFlaggedRows

\* two districts are flagged, with different z-scores
C11_TwoAlerts ==
    /\ RiskComputed
    /\ Len(view.anomalies[1].rows) = 2
    /\ Alerts(view.anomalies[1])[1][2] # Alerts(view.anomalies[1])[2][2]

(***************************************************************************)
(* detect_anomalies on a table it cannot score                             *)
(***************************************************************************)
\* detect_anomalies has returned from a call that was given None, a table
\* without rows, or a metric that is not a column of the table
DetectCalledOnUnscorable ==
    /\ det.ret \in {"None", "df"}
    /\ \/ det.before = <<>>
       \/ Len(det.before[1].rows) = 0
       \/ ~HasColumn(det.before[1], det.metric_col)

\* C12: detect_anomalies called with None or an empty grouped table, or with
\* a metric key that is not a column of the table, returns None, and the
\* table it was given is as it was before the call.
C12_UnscorableReturnsNoneUnchanged ==
    DetectCalledOnUnscorable => (det.ret = "None" /\ det_df = det.before)

\* a call with a grouped table of two districts or more and a metric that is
\* not one of its columns has returned None
C12_Witness ==
    /\ det.ret = "None"
    /\ det.before # <<>>
    /\ Len(det.before[1].rows) >= 2
    /\ ~HasColumn(det.before[1], det.metric_col)
    /\ det_df = det.before

\* a call with a grouped table without rows, whose metric is a column
C12_WitnessEmpty ==
    /\ det.ret = "None"
    /\ det.before # <<>>
    /\ Len(det.before[1].rows) = 0
    /\ HasColumn(det.before[1], det.metric_col)

\* a call with None
C12_WitnessNoTable == det.ret = "None" /\ det.before = <<>>

(***************************************************************************)
(* What a call leaves of the table it was given                            *)
(***************************************************************************)
\* the frame the caller passed to normalize_columns, as it was before the call
PassedToNormalize ==
    IF raw.kind = "variant" THEN Frame(<<Render(raw)>>, <<>>)
    ELSE Frame(<<>>, <<>>)

\* after normalize_columns has returned, the caller's frame has the headers it
\* had before the call
NormalizeLeavesInput ==
    (pc \in {"normalized", "identified"} /\ raw.kind = "variant") =>
      df.columns = PassedToNormalize.columns

\* after detect_anomalies has returned, the caller's frame has the columns and
\* the cells it had before the call
DetectLeavesInput ==
    det.ret \in {"None", "df"} => det_df = det.before

\* C13 as stated: after normalize_columns or detect_anomalies returns, the
\* table the caller passed in has the same column keys and the same cell values
\* as before the call.
C13_CallsLeaveTheirInput == NormalizeLeavesInput /\ DetectLeavesInput

\* what the calls do to the table they were given: normalize_columns replaces
\* its headers by the normalized ones, and detect_anomalies, when it scores the
\* table, adds the columns Z_Score and Is_Anomaly to it and changes nothing else
C13_CallsWriteToTheirInput ==
    /\ (pc \in {"normalized", "identified"} /\ raw.kind = "variant") =>
          df.columns = <<NormalizeHeader(Render(raw))>>
    /\ det.ret = "df" =>
          /\ det_df[1].columns = det.before[1].columns \o <<K_Z_Score, K_Is_Anomaly>>
          /\ Len(det_df[1].rows) = Len(det.before[1].rows)
          /\ \A r \in 1..Len(det_df[1].rows) :
                \A c \in 1..Len(det.before[1].columns) :
                    det_df[1].rows[r].cells[c] = det.before[1].rows[r].cells[c]

====
